---- MODULE Spec2Model ----
(***************************************************************************)
(* A model of services/python/app/api/routes/sql_query.py: the two request *)
(* handlers execute_sql_with_llm_guidance and generate_predictive_analysis *)
(* and the chart builder generate_interactive_chart.                       *)
(*                                                                         *)
(* Text is a sequence of tokens (each token a Python substring), a cell of *)
(* a result set is a pair <<kind, n>>, a DataFrame is a record of ordered  *)
(* column names and rows, a Python dict is a sequence of <<key, value>>    *)
(* pairs (dicts keep insertion order), and None is the empty sequence      *)
(* where a value is optional.                                              *)
(***************************************************************************)
EXTENDS Integers, Sequences, FiniteSets, TLC

\* ------------------------------------------------------------------ bounds

\* Most columns of a fetched result set.
MaxCols == 2
\* Most rows of a fetched result set.
MaxRows == 2
\* Largest row limit a request of the row-cap specification carries.
MaxLimit == 2
\* Most tokens of the body of a reply of the text-generation capability to
\* the query-generation prompt.
MaxReply == 3

\* ------------------------------------------------------------------- text

\* The tokens of a text: three backquotes (a Markdown fence), the language
\* tag that follows an opening fence, and a line break (whitespace).
FENCE == "<fence>"
SQLTAG == "sql"
WS == "<newline>"

Min(a, b) == IF a < b THEN a ELSE b

\* str.startswith
StartsWith(s, p) == Len(s) >= Len(p) /\ SubSeq(s, 1, Len(p)) = p

RECURSIVE LStrip(_)
LStrip(s) == IF s # <<>> /\ Head(s) = WS THEN LStrip(Tail(s)) ELSE s

RECURSIVE RStrip(_)
RStrip(s) ==
    IF s # <<>> /\ s[Len(s)] = WS THEN RStrip(SubSeq(s, 1, Len(s) - 1)) ELSE s

\* str.strip
Strip(s) == RStrip(LStrip(s))

\* str.replace(p, ""): every non-overlapping occurrence of p, left to right,
\* in one pass.
RECURSIVE Remove(_, _)
Remove(s, p) ==
    IF s = <<>> THEN <<>>
    ELSE IF StartsWith(s, p) THEN Remove(SubSeq(s, Len(p) + 1, Len(s)), p)
    ELSE <<Head(s)>> \o Remove(Tail(s), p)

\* All token sequences over alphabet A of length at most n.
SeqsUpTo(A, n) == UNION {[1..k -> A] : k \in 0..n}

\* ------------------------------------------------- result sets and DataFrames

\* The column names of a result set, in declaration order.
ColNames == <<"c1", "c2", "c3", "c4">>

\* The cells of a result set: integers, strings (by number) and timestamps
\* (by number), each tagged with its kind.
Cells(ints, strs, tss) ==
    ({"int"} \X ints) \cup ({"str"} \X strs) \cup ({"ts"} \X tss)

\* The kinds of the cells, and the rows of n columns whose j-th cell is of
\* kind ks[j].
KindsOf(cells) == {c[1] : c \in cells}
RowsOfKinds(cells, ks) ==
    {row \in [DOMAIN ks -> cells] : \A j \in DOMAIN ks : row[j][1] = ks[j]}

\* What connection.execute(...) returns with result.keys() and
\* result.fetchall(): the column names and the rows.
ResultSet(n, rows) == [columns |-> SubSeq(ColNames, 1, n), rows |-> rows]

\* The position of column name c in df.
ColIndex(df, c) == CHOOSE j \in 1..Len(df.columns) : df.columns[j] = c

\* df[c]: the values of column c, in row order.
Column(df, c) == [i \in 1..Len(df.rows) |-> df.rows[i][ColIndex(df, c)]]

\* The dtype pandas infers for column j: a number dtype when every value is
\* a number, datetime64 when every value is a timestamp, object otherwise
\* (and for a column with no value).
DType(df, j) ==
    IF df.rows = <<>> THEN "object"
    ELSE IF \A i \in 1..Len(df.rows) : df.rows[i][j][1] = "int" THEN "number"
    ELSE IF \A i \in 1..Len(df.rows) : df.rows[i][j][1] = "ts" THEN "datetime"
    ELSE "object"

RECURSIVE SelectCols(_, _, _)
SelectCols(df, include, j) ==
    IF j > Len(df.columns) THEN <<>>
    ELSE (IF DType(df, j) \in include THEN <<df.columns[j]>> ELSE <<>>)
         \o SelectCols(df, include, j + 1)

\* df.select_dtypes(include=...).columns.tolist(): in column order.
select_dtypes(df, include) == SelectCols(df, include, 1)

\* A cap that keeps the last n rows (df.tail) instead of the first.
HeadTail(df, n) ==
    [df EXCEPT !.rows = SubSeq(df.rows, Len(df.rows) - n + 1, Len(df.rows))]

\* df.head(n): the first n rows, or all but the last -n rows when n < 0.
head(df, n) ==
    [df EXCEPT !.rows =
        SubSeq(df.rows, 1, IF n >= 0 THEN Min(n, Len(df.rows))
                           ELSE Len(df.rows) + n)]

\* df.to_dict('records'): one dict per row, keyed by column name in column
\* order.
to_dict_records(df) ==
    [i \in 1..Len(df.rows) |->
        [j \in 1..Len(df.columns) |-> <<df.columns[j], df.rows[i][j]>>]]

\* pd.DataFrame(data) of a list of dicts: the columns are the keys of the
\* dicts in insertion order.
DataFrameOfRecords(data) ==
    [columns |-> IF data = <<>> THEN <<>>
                 ELSE [j \in 1..Len(data[1]) |-> data[1][j][1]],
     rows |-> [i \in 1..Len(data) |->
                 [j \in 1..Len(data[i]) |-> data[i][j][2]]]]

\* Series.value_counts(): the distinct values with their counts, the most
\* frequent first, equal counts in order of first appearance.
Count(vals, v) == Cardinality({i \in 1..Len(vals) : vals[i] = v})
RECURSIVE Distinct(_)
Distinct(vals) ==
    IF vals = <<>> THEN <<>>
    ELSE LET d == Distinct(SubSeq(vals, 1, Len(vals) - 1))
             v == vals[Len(vals)]
         IN IF \E i \in 1..Len(d) : d[i] = v THEN d ELSE Append(d, v)
RECURSIVE SortByCount(_, _)
SortByCount(vals, d) ==
    IF d = <<>> THEN <<>>
    ELSE LET top == CHOOSE i \in 1..Len(d) :
                      /\ \A k \in 1..Len(d) : Count(vals, d[k]) <= Count(vals, d[i])
                      /\ \A k \in 1..(i - 1) : Count(vals, d[k]) < Count(vals, d[i])
         IN <<d[top]>>
            \o SortByCount(vals, [k \in 1..(Len(d) - 1) |->
                                    IF k < top THEN d[k] ELSE d[k + 1]])
value_counts(vals) ==
    LET idx == SortByCount(vals, Distinct(vals))
    IN [index |-> idx,
        values |-> [k \in 1..Len(idx) |-> <<"int", Count(vals, idx[k])>>]]

\* ------------------------------------------------- generate_interactive_chart

\* The chart types generate_interactive_chart has a branch for.
KnownKinds == {"bar", "line", "scatter", "pie", "histogram", "box"}

\* A Plotly figure: its trace type, the arrays handed to it and its title.
Fig(type, x, y, labels, values, title) ==
    [type |-> type, x |-> x, y |-> y, labels |-> labels, values |-> values,
     title |-> title]

\* fig.to_json()
to_json(fig) == <<"json", fig>>

\* An axis selection that always takes the first declared column.
XColFirst(categorical_cols, columns) == columns[1]

\* x_col = categorical_cols[0] if categorical_cols else columns[0]
XCol(categorical_cols, columns) ==
    IF categorical_cols # <<>> THEN categorical_cols[1] ELSE columns[1]

\* y_col = numeric_cols[0] if numeric_cols
\*         else columns[1] if len(columns) > 1 else columns[0]
YCol(numeric_cols, columns) ==
    IF numeric_cols # <<>> THEN numeric_cols[1]
    ELSE IF Len(columns) > 1 THEN columns[2] ELSE columns[1]

\* px.bar(df, x=x_col, y=y_col, title=f"{y_col} by {x_col}")
BarFig(df, x_col, y_col) ==
    Fig("bar", Column(df, x_col), Column(df, y_col), <<>>, <<>>,
        <<y_col, " by ", x_col>>)

\* A pie branch without the fallback to value counts.
PieFigWeighted(df, x_col, y_col, numeric_cols, categorical_cols) ==
    Fig("pie", <<>>, <<>>, Column(df, x_col), Column(df, y_col),
        <<"Distribution of ", y_col>>)

\* The pie branch: sliced by x_col and weighted by y_col when the data has a
\* categorical and a numeric column, the value counts of x_col otherwise.
PieFig(df, x_col, y_col, numeric_cols, categorical_cols) ==
    IF Len(categorical_cols) > 0 /\ Len(numeric_cols) > 0
    THEN Fig("pie", <<>>, <<>>, Column(df, x_col), Column(df, y_col),
             <<"Distribution of ", y_col>>)
    ELSE LET vc == value_counts(Column(df, x_col))
         IN Fig("pie", <<>>, <<>>, vc.index, vc.values,
                <<"Distribution of ", x_col>>)

\* A branch on chart_type whose default is the line chart.
BuildFigDefaultLine(df, chart_type, x_col, y_col, numeric_cols, categorical_cols) ==
    IF chart_type = "pie"
    THEN PieFig(df, x_col, y_col, numeric_cols, categorical_cols)
    ELSE Fig("line", Column(df, x_col), Column(df, y_col), <<>>, <<>>,
             <<y_col, " over ", x_col>>)

\* The branch on chart_type, the last one the default.
BuildFig(df, chart_type, x_col, y_col, numeric_cols, categorical_cols) ==
    CASE chart_type = "bar" -> BarFig(df, x_col, y_col)
      [] chart_type = "line" ->
            Fig("line", Column(df, x_col), Column(df, y_col), <<>>, <<>>,
                <<y_col, " over ", x_col>>)
      [] chart_type = "scatter" ->
            Fig("scatter", Column(df, x_col), Column(df, y_col), <<>>, <<>>,
                <<y_col, " vs ", x_col>>)
      [] chart_type = "pie" ->
            PieFig(df, x_col, y_col, numeric_cols, categorical_cols)
      [] chart_type = "histogram" ->
            Fig("histogram", Column(df, y_col), <<>>, <<>>, <<>>,
                <<"Distribution of ", y_col>>)
      [] chart_type = "box" ->
            Fig("box", <<>>, Column(df, y_col), <<>>, <<>>,
                <<"Box plot of ", y_col>>)
      [] OTHER -> BarFig(df, x_col, y_col)

\* An except branch that reports the default chart type.
ChartErrorDefaultKind(chart_type, msg) ==
    [error |-> <<"Chart generation failed: ", msg>>, chart_type |-> "bar"]

\* The dict the except branch returns.
ChartError(chart_type, msg) ==
    [error |-> <<"Chart generation failed: ", msg>>, chart_type |-> chart_type]

\* generate_interactive_chart(data, chart_type, columns). columns[0] raises
\* IndexError when columns is empty and a fallback to it is taken; the
\* handler passes the column names of the very data, so that x_col and y_col
\* name columns of df.
generate_interactive_chart(data, chart_type, columns) ==
    LET df == DataFrameOfRecords(data)
        numeric_cols == select_dtypes(df, {"number"})
        categorical_cols == select_dtypes(df, {"object", "category"})
    IN IF columns = <<>> /\ (categorical_cols = <<>> \/ numeric_cols = <<>>)
       THEN ChartError(chart_type, "list index out of range")
       ELSE LET x_col == XCol(categorical_cols, columns)
                y_col == YCol(numeric_cols, columns)
            IN [plotly_json |-> to_json(BuildFig(df, chart_type, x_col, y_col,
                                                 numeric_cols, categorical_cols)),
                chart_type |-> chart_type,
                x_column |-> x_col,
                y_column |-> y_col]

\* ------------------------------------------------------------------- state

VARIABLES
    handler,        \* the route the request came to
    request,        \* the SQLQueryRequest as the caller sent it
    llm,            \* whether get_llm_instance() returns an instance
    query_info,     \* the SQLQueryRequest the handler holds (it overwrites
                    \* query and chart_type)
    pc,             \* the handler's position
    connection,     \* the connection of engine.connect(): none, open, released
    result,         \* what connection.execute(...) fetched, None before
    df,             \* the handler's DataFrame, None before
    data,           \* df.to_dict('records'), None before
    chart_data,     \* the chart dict, or None
    insights,       \* the text of the narrative or of the predictions, or None
    trends,         \* the trends dict, or None
    response,       \* what the caller receives, None while the handler runs
    failure,        \* the step whose exception ended the handler, or None
    llm_calls,      \* the llm.ainvoke calls made, in order: what each was
                    \* for, how it ended and the text it returned
    executed,       \* the queries handed to connection.execute, in order
    cancelled       \* whether the cancellation of the request's task has
                    \* been requested

vars == <<handler, request, llm, query_info, pc, connection, result, df, data,
          chart_data, insights, trends, response, failure, llm_calls, executed,
          cancelled>>

None == <<>>
Some(v) == <<v>>

\* ------------------------------------------------------------- exceptions

HTTPException(status_code, detail) ==
    [cls |-> "HTTPException", status_code |-> status_code, detail |-> detail]
Exception(cls, msg) == [cls |-> cls, status_code |-> 0, detail |-> <<msg>>]

\* str(e): Starlette prints an HTTPException as "<status_code>: <detail>".
Str(e) ==
    IF e.cls = "HTTPException"
    THEN <<IF e.status_code = 500 THEN "500: " ELSE "400: ">> \o e.detail
    ELSE e.detail

\* An outermost handler that runs the failed statement again.
AbortRetry(step, e) ==
    /\ response' = response
    /\ failure' = failure
    /\ pc' = pc

\* The handlers' outermost "except Exception as e": every exception raised in
\* the body, an HTTPException too, becomes a 400 whose detail is str(e).
Abort(step, e) ==
    /\ response' = Some([status |-> 400, detail |-> Str(e)])
    /\ failure' = Some(step)
    /\ pc' = "done"

\* "except SQLAlchemyError as e" of execute_sql_with_llm_guidance: the error
\* is raised again as an HTTPException, inside the outer try.
SqlExecutionFailed(e) ==
    HTTPException(400, <<"SQL execution failed: ">> \o Str(e))

\* What the collaborators raise.
LlmError == Exception("Exception", "text generation failed")
DbError == Exception("SQLAlchemyError", "data source error")

\* ------------------------------------------------------- text generation

\* The generated SQL: the reply stripped, and when it starts with a fence
\* tagged sql, every fence tagged sql and then every fence removed, and
\* stripped again.
CleanSql(content) ==
    LET generated_sql == Strip(content)
    IN IF StartsWith(generated_sql, <<FENCE, SQLTAG>>)
       THEN Strip(Remove(Remove(generated_sql, <<FENCE, SQLTAG>>), <<FENCE>>))
       ELSE generated_sql

\* A resolution that lets the natural-language text override a raw query.
NeedsResolutionOverride(q) == q.natural_language_query # <<>>

\* Whether the handler asks the text generation for a query.
NeedsResolution(q) == q.query = <<>> /\ q.natural_language_query # <<>>

\* response.content.strip().lower() of the replies to the chart prompt.
StripLower(content) ==
    CASE content = " Pie\n" -> "pie"
      [] content = "Bar" -> "bar"
      [] OTHER -> content

\* ------------------------------------------------------------------- Init

\* A request carries a raw query, a natural-language text or both.

InitWith(handlers, queries, texts, kinds, limits, llms) ==
    /\ handler \in handlers
    /\ request \in {r \in [query : queries, natural_language_query : texts,
                           chart_type : kinds, limit : limits] :
                        r.query # <<>> \/ r.natural_language_query # <<>>}
    /\ llm \in llms
    /\ query_info = request
    /\ pc = "get_llm"
    /\ connection = "none"
    /\ result = None
    /\ df = None
    /\ data = None
    /\ chart_data = None
    /\ insights = None
    /\ trends = None
    /\ response = None
    /\ failure = None
    /\ llm_calls = <<>>
    /\ executed = <<>>
    /\ cancelled = FALSE

\* ------------------------------------------------------------ cancellation

\* Whether the handler's next statement awaits a collaborator and suspends
\* there: get_llm_instance(), and llm.ainvoke(...) where its condition holds.
\* generate_interactive_chart awaits nothing, and connection.execute(...) is
\* a plain call.
Suspends ==
    \/ pc = "get_llm"
    \/ pc = "resolve" /\ NeedsResolution(query_info)
    \/ pc = "recommend" /\ query_info.chart_type = "auto" /\ data[1] # <<>>
    \/ pc = "insights"
    \/ pc = "predict" /\ df[1].columns # <<>>

\* asyncio raises CancelledError in a cancelled task at the await where it is
\* suspended, and nowhere else: the statements between two awaits run on the
\* event loop's thread and nothing interrupts them.
Interrupted == cancelled /\ Suspends

\* The cancellation of the request's task is requested (the server shuts down,
\* a middleware gives up on the client), at any point of the request.
Cancel ==
    /\ pc # "done" /\ ~cancelled
    /\ cancelled' = TRUE
    /\ UNCHANGED <<handler, request, llm, query_info, pc, connection, result,
                   df, data, chart_data, insights, trends, response, failure,
                   llm_calls, executed>>

\* What the await of the handler's position is for.
Purpose(step) ==
    CASE step = "resolve" -> "sql"
      [] step = "recommend" -> "chart"
      [] step = "insights" -> "insights"
      [] OTHER -> "predictions"

\* CancelledError at the await the handler has reached: the awaited call has
\* been started and its reply is dropped. CancelledError is a BaseException,
\* "except Exception" lets it through, and the caller receives nothing.
EsCancelled ==
    /\ handler = "execute_sql" /\ Interrupted
    /\ llm_calls' = IF pc = "get_llm" THEN llm_calls
                    ELSE Append(llm_calls, <<Purpose(pc), "cancelled", <<>>>>)
    /\ failure' = Some(pc)
    /\ pc' = "done"
    /\ UNCHANGED <<handler, request, llm, cancelled, query_info, connection,
                   result, df, data, chart_data, insights, trends, response,
                   executed>>

\* ----------------------------------------- execute_sql_with_llm_guidance

\* A first step that does not test the instance it got.
EsGetLlmUnchecked ==
    /\ handler = "execute_sql" /\ pc = "get_llm"
    /\ ~Interrupted
    /\ pc' = "resolve"
    /\ UNCHANGED <<handler, request, llm, cancelled, query_info, connection,
                   result, df, data, chart_data, insights, trends, response,
                   failure, llm_calls, executed>>

\* llm = await retrieval_service.get_llm_instance(); if llm is None: raise
EsGetLlm ==
    /\ handler = "execute_sql" /\ pc = "get_llm"
    /\ ~Interrupted
    /\ IF ~llm
       THEN Abort("get_llm", HTTPException(500,
                <<"Failed to initialize LLM service for SQL analysis.">>))
       ELSE pc' = "resolve" /\ UNCHANGED <<response, failure>>
    /\ UNCHANGED <<handler, request, llm, cancelled, query_info, connection, result, df,
                   data, chart_data, insights, trends, llm_calls, executed>>

\* if not query_info.query and query_info.natural_language_query: one
\* llm.ainvoke, whose reply becomes query_info.query.
EsResolve(replies) ==
    /\ handler = "execute_sql" /\ pc = "resolve"
    /\ ~Interrupted
    /\ IF NeedsResolution(query_info)
       THEN \E raises \in BOOLEAN, content \in replies :
              IF raises
              THEN /\ llm_calls' = Append(llm_calls, <<"sql", "raise", <<>>>>)
                   /\ Abort("resolve", LlmError)
                   /\ UNCHANGED query_info
              ELSE /\ llm_calls' = Append(llm_calls, <<"sql", "ok", content>>)
                   /\ query_info' = [query_info EXCEPT !.query = CleanSql(content)]
                   /\ pc' = "connect"
                   /\ UNCHANGED <<response, failure>>
       ELSE pc' = "connect" /\ UNCHANGED <<query_info, llm_calls, response, failure>>
    /\ UNCHANGED <<handler, request, llm, cancelled, connection, result, df, data,
                   chart_data, insights, trends, executed>>

\* engine = create_engine(...); with engine.connect() as connection
EsConnect ==
    /\ handler = "execute_sql" /\ pc = "connect"
    /\ \E ok \in BOOLEAN :
         IF ok
         THEN connection' = "open" /\ pc' = "execute" /\ UNCHANGED <<response, failure>>
         ELSE Abort("connect", SqlExecutionFailed(DbError)) /\ UNCHANGED connection
    /\ UNCHANGED <<handler, request, llm, cancelled, query_info, result, df, data,
                   chart_data, insights, trends, llm_calls, executed>>

\* An execution whose connection is closed by hand after the fetch, and so
\* stays open when the data source raises.
EsExecuteLeaky(cells) ==
    /\ handler = "execute_sql" /\ pc = "execute"
    /\ executed' = Append(executed, query_info.query)
    /\ \E ok \in BOOLEAN :
         IF ok
         THEN \E n \in 0..MaxCols, r \in 0..MaxRows :
              \E ks \in [1..n -> KindsOf(cells)] :
              \E rows \in [1..r -> RowsOfKinds(cells, ks)] :
                 /\ result' = Some(ResultSet(n, rows))
                 /\ df' = result'
                 /\ pc' = "cap"
                 /\ UNCHANGED <<response, failure, connection>>
         ELSE /\ Abort("execute", SqlExecutionFailed(DbError))
              /\ UNCHANGED <<result, df, connection>>
    /\ UNCHANGED <<handler, request, llm, cancelled, query_info, data,
                   chart_data, insights, trends, llm_calls>>

\* result = connection.execute(text(query_info.query));
\* df = pd.DataFrame(result.fetchall(), columns=result.keys()). The data
\* source raises or returns up to MaxRows rows of up to MaxCols columns, each
\* column of one kind of cells.
EsExecute(cells) ==
    /\ handler = "execute_sql" /\ pc = "execute"
    /\ executed' = Append(executed, query_info.query)
    /\ \E ok \in BOOLEAN :
         IF ok
         THEN \E n \in 0..MaxCols, r \in 0..MaxRows :
              \E ks \in [1..n -> KindsOf(cells)] :
              \E rows \in [1..r -> RowsOfKinds(cells, ks)] :
                 /\ result' = Some(ResultSet(n, rows))
                 /\ df' = result'
                 /\ pc' = "cap"
                 /\ UNCHANGED <<response, failure, connection>>
         ELSE /\ connection' = "released"
              /\ Abort("execute", SqlExecutionFailed(DbError))
              /\ UNCHANGED <<result, df>>
    /\ UNCHANGED <<handler, request, llm, cancelled, query_info, data, chart_data,
                   insights, trends, llm_calls>>

\* if len(df) > query_info.limit: df = df.head(query_info.limit)
CapRows(d, limit) == IF Len(d.rows) > limit THEN head(d, limit) ELSE d

\* The row cap and data = df.to_dict('records'), then the end of the with
\* block. Comparing len(df) with a limit of None raises TypeError, which is
\* no SQLAlchemyError.
EsCap ==
    /\ handler = "execute_sql" /\ pc = "cap"
    /\ connection' = "released"
    /\ IF query_info.limit = None
       THEN /\ Abort("cap", Exception("TypeError",
                         "'>' not supported between int and NoneType"))
            /\ UNCHANGED <<df, data>>
       ELSE /\ df' = Some(CapRows(df[1], query_info.limit[1]))
            /\ data' = Some(to_dict_records(df'[1]))
            /\ pc' = "recommend"
            /\ UNCHANGED <<response, failure>>
    /\ UNCHANGED <<handler, request, llm, cancelled, query_info, result, chart_data,
                   insights, trends, llm_calls, executed>>

\* if query_info.chart_type == "auto" and data: one llm.ainvoke, whose reply
\* becomes query_info.chart_type.
EsRecommend(replies) ==
    /\ handler = "execute_sql" /\ pc = "recommend"
    /\ ~Interrupted
    /\ IF query_info.chart_type = "auto" /\ data[1] # <<>>
       THEN \E raises \in BOOLEAN, content \in replies :
              IF raises
              THEN /\ llm_calls' = Append(llm_calls, <<"chart", "raise", <<>>>>)
                   /\ Abort("recommend", LlmError)
                   /\ UNCHANGED query_info
              ELSE /\ llm_calls' = Append(llm_calls, <<"chart", "ok", <<content>>>>)
                   /\ query_info' =
                        [query_info EXCEPT !.chart_type = StripLower(content)]
                   /\ pc' = "chart"
                   /\ UNCHANGED <<response, failure>>
       ELSE pc' = "chart" /\ UNCHANGED <<query_info, llm_calls, response, failure>>
    /\ UNCHANGED <<handler, request, llm, cancelled, connection, result, df, data,
                   chart_data, insights, trends, executed>>

\* chart_data = None; if data and query_info.chart_type != "none":
\* chart_data = await generate_interactive_chart(...)
EsChart ==
    /\ handler = "execute_sql" /\ pc = "chart"
    /\ chart_data' =
         IF data[1] # <<>> /\ query_info.chart_type # "none"
         THEN Some(generate_interactive_chart(data[1], query_info.chart_type,
                                              df[1].columns))
         ELSE None
    /\ pc' = "insights"
    /\ UNCHANGED <<handler, request, llm, cancelled, query_info, connection, result, df,
                   data, insights, trends, response, failure, llm_calls,
                   executed>>

\* The dict execute_sql_with_llm_guidance returns.
EsBody(text) ==
    [sql_query |-> query_info.query,
     data |-> data[1],
     chart |-> chart_data,
     insights |-> text,
     metadata |-> [row_count |-> Len(df[1].rows),
                   columns |-> df[1].columns,
                   chart_type |-> query_info.chart_type]]

\* The insights prompt, one llm.ainvoke, and the return.
EsInsights ==
    /\ handler = "execute_sql" /\ pc = "insights"
    /\ ~Interrupted
    /\ \E raises \in BOOLEAN :
         IF raises
         THEN /\ llm_calls' = Append(llm_calls, <<"insights", "raise", <<>>>>)
              /\ Abort("insights", LlmError)
              /\ UNCHANGED insights
         ELSE /\ llm_calls' = Append(llm_calls, <<"insights", "ok", <<"insights">>>>)
              /\ insights' = Some("insights")
              /\ response' = Some([status |-> 200, body |-> EsBody("insights")])
              /\ pc' = "done"
              /\ UNCHANGED failure
    /\ UNCHANGED <<handler, request, llm, cancelled, query_info, connection, result, df,
                   data, chart_data, trends, executed>>

\* ------------------------------------------- generate_predictive_analysis

\* llm = await retrieval_service.get_llm_instance(); if llm is None: raise
PaGetLlm ==
    /\ handler = "predictive" /\ pc = "get_llm"
    /\ ~Interrupted
    /\ IF ~llm
       THEN Abort("get_llm",
                  HTTPException(500, <<"Failed to initialize LLM service.">>))
       ELSE pc' = "connect" /\ UNCHANGED <<response, failure>>
    /\ UNCHANGED <<handler, request, llm, cancelled, query_info, connection, result, df,
                   data, chart_data, insights, trends, llm_calls, executed>>

\* engine = create_engine(...); with engine.connect() as connection
PaConnect ==
    /\ handler = "predictive" /\ pc = "connect"
    /\ \E ok \in BOOLEAN :
         IF ok
         THEN connection' = "open" /\ pc' = "execute" /\ UNCHANGED <<response, failure>>
         ELSE Abort("connect", DbError) /\ UNCHANGED connection
    /\ UNCHANGED <<handler, request, llm, cancelled, query_info, result, df, data,
                   chart_data, insights, trends, llm_calls, executed>>

\* result = connection.execute(text(query_info.query));
\* df = pd.DataFrame(result.fetchall(), columns=result.keys()), and the end
\* of the with block.
PaExecute(cells) ==
    /\ handler = "predictive" /\ pc = "execute"
    /\ executed' = Append(executed, query_info.query)
    /\ connection' = "released"
    /\ \E ok \in BOOLEAN :
         IF ok
         THEN \E n \in 0..MaxCols, r \in 0..MaxRows :
              \E ks \in [1..n -> KindsOf(cells)] :
              \E rows \in [1..r -> RowsOfKinds(cells, ks)] :
                 /\ result' = Some(ResultSet(n, rows))
                 /\ df' = result'
                 /\ pc' = "predict"
                 /\ UNCHANGED <<response, failure>>
         ELSE /\ Abort("execute", DbError)
              /\ UNCHANGED <<result, df>>
    /\ UNCHANGED <<handler, request, llm, cancelled, query_info, data, chart_data,
                   insights, trends, llm_calls>>

\* The prediction prompt and one llm.ainvoke. df.describe() in the prompt
\* raises ValueError for a DataFrame without columns.
PaPredict ==
    /\ handler = "predictive" /\ pc = "predict"
    /\ ~Interrupted
    /\ IF df[1].columns = <<>>
       THEN /\ Abort("predict", Exception("ValueError",
                               "Cannot describe a DataFrame without columns"))
            /\ UNCHANGED <<insights, llm_calls>>
       ELSE \E raises \in BOOLEAN :
              IF raises
              THEN /\ llm_calls' = Append(llm_calls, <<"predictions", "raise", <<>>>>)
                   /\ Abort("predict", LlmError)
                   /\ UNCHANGED insights
              ELSE /\ llm_calls' = Append(llm_calls, <<"predictions", "ok", <<"predictions">>>>)
                   /\ insights' = Some("predictions")
                   /\ pc' = "trends"
                   /\ UNCHANGED <<response, failure>>
    /\ UNCHANGED <<handler, request, llm, cancelled, query_info, connection, result, df,
                   data, chart_data, trends, executed>>

\* A quotient of two integers as a reduced fraction; the quotient by 0 is
\* what numpy gives (inf, -inf or nan: a fraction of denominator 0), with a
\* warning and no exception.
Abs(a) == IF a < 0 THEN -a ELSE a
Sign(a) == IF a < 0 THEN -1 ELSE IF a > 0 THEN 1 ELSE 0
RECURSIVE Gcd(_, _)
Gcd(a, b) == IF b = 0 THEN a ELSE Gcd(b, a % b)
Frac(n, d) ==
    IF d = 0 THEN [num |-> Sign(n), den |-> 0]
    ELSE LET g == Gcd(Abs(n), Abs(d))
         IN [num |-> Sign(d) * (n \div g), den |-> Abs(d) \div g]

\* The percentage without the guard on first.
ChangePercentageUnguarded(first, last) ==
    LET q == Frac(last - first, first) IN Frac(q.num * 100, q.den)

\* ((last - first) / first * 100) if first != 0 else 0
ChangePercentage(first, last) ==
    IF first # 0
    THEN LET q == Frac(last - first, first) IN Frac(q.num * 100, q.den)
    ELSE Frac(0, 1)

\* A direction that counts equal values as increasing.
DirectionNotLess(first, last) ==
    IF last >= first THEN "increasing" ELSE "decreasing"

\* "increasing" if last > first else "decreasing"
Direction(first, last) == IF last > first THEN "increasing" ELSE "decreasing"

\* A trend loop without the test on the number of rows.
RECURSIVE TrendsOfAnyRows(_, _)
TrendsOfAnyRows(d, cols) ==
    IF cols = <<>> THEN <<>>
    ELSE LET v == Column(d, Head(cols))
             first == v[1][2]
             last == v[Len(v)][2]
         IN <<<<Head(cols),
                [direction |-> Direction(first, last),
                 change_percentage |-> ChangePercentage(first, last)]>>>>
            \o TrendsOfAnyRows(d, Tail(cols))

\* The trends dict: for col in the number columns, if len(df) > 1, an entry
\* from df[col].iloc[0] and df[col].iloc[-1].
RECURSIVE TrendsOf(_, _)
TrendsOf(d, cols) ==
    IF cols = <<>> THEN <<>>
    ELSE (IF Len(d.rows) > 1
          THEN LET v == Column(d, Head(cols))
                   first == v[1][2]
                   last == v[Len(v)][2]
               IN <<<<Head(cols),
                      [direction |-> Direction(first, last),
                       change_percentage |-> ChangePercentage(first, last)]>>>>
          ELSE <<>>)
         \o TrendsOf(d, Tail(cols))

\* The dict generate_predictive_analysis returns.
PaBody(t) ==
    [predictions |-> insights[1],
     trends |-> t,
     data_summary |-> [row_count |-> Len(df[1].rows),
                       columns |-> df[1].columns,
                       numeric_columns |-> select_dtypes(df[1], {"number"})]]

\* The trend loop and the return.
PaTrends ==
    /\ handler = "predictive" /\ pc = "trends"
    /\ trends' = Some(TrendsOf(df[1], select_dtypes(df[1], {"number"})))
    /\ response' = Some([status |-> 200, body |-> PaBody(trends'[1])])
    /\ pc' = "done"
    /\ UNCHANGED failure
    /\ UNCHANGED <<handler, request, llm, cancelled, query_info, connection, result, df,
                   data, chart_data, insights, llm_calls, executed>>

\* ---------------------------------------------------------- specifications

\* limit: Optional[int] = 1000
DefaultLimit == 1000

\* A raw query and a natural-language question.
RawQuery == <<"SELECT 1">>
Question == <<"how many rows">>

\* The replies of the text generation to the chart prompt.
ChartReplies == {" Pie\n", "area"}

\* The whole pipeline, both handlers: every request shape, every failure of
\* a collaborator, small result sets.
PipeReplies == {<<"SELECT 1">>, <<FENCE, SQLTAG, WS, "SELECT 1", WS, FENCE>>}
PipeCells == Cells({2}, {}, {})

Init ==
    InitWith({"execute_sql", "predictive"}, {<<>>, RawQuery}, {<<>>, Question},
             {"auto", "none", "bar"}, {None, Some(1)}, BOOLEAN)

Next ==
    \/ EsGetLlm
    \/ EsResolve(PipeReplies)
    \/ EsConnect
    \/ EsExecute(PipeCells)
    \/ EsCap
    \/ EsRecommend(ChartReplies)
    \/ EsChart
    \/ EsInsights
    \/ PaGetLlm
    \/ PaConnect
    \/ PaExecute(PipeCells)
    \/ PaPredict
    \/ PaTrends

Spec == Init /\ [][Next]_vars

\* The row cap: every limit from -1 to MaxLimit against every result set.
CapCells == Cells({0, 2}, {1}, {})

InitCap ==
    InitWith({"execute_sql"}, {RawQuery}, {<<>>}, {"none"},
             {Some(n) : n \in -1..MaxLimit}, {TRUE})

NextCap ==
    \/ EsGetLlm
    \/ EsResolve(PipeReplies)
    \/ EsConnect
    \/ EsExecute(CapCells)
    \/ EsCap
    \/ EsRecommend(ChartReplies)
    \/ EsChart
    \/ EsInsights

SpecCap == InitCap /\ [][NextCap]_vars

\* Query resolution: the replies made of an opening (nothing, a fence, a fence
\* tagged sql, with or without a line break), a body of up to MaxReply tokens
\* (pieces of a query, fences, tags, line breaks) and a closing (nothing, a
\* fence, with or without a line break).
ReplyOpenings ==
    {<<>>, <<FENCE>>, <<FENCE, SQLTAG>>, <<FENCE, SQLTAG, WS>>,
     <<WS, FENCE, SQLTAG, WS>>}
ReplyBodies == SeqsUpTo({"SELECT '", "'", FENCE, SQLTAG, WS}, MaxReply)
ReplyClosings == {<<>>, <<FENCE>>, <<WS, FENCE>>, <<WS, FENCE, WS>>}
ResolveReplies ==
    {o \o b \o c : o \in ReplyOpenings, b \in ReplyBodies, c \in ReplyClosings}

InitResolve ==
    InitWith({"execute_sql"}, {<<>>, RawQuery}, {<<>>, Question}, {"none"},
             {Some(DefaultLimit)}, {TRUE})

NextResolve ==
    \/ EsGetLlm
    \/ EsResolve(ResolveReplies)
    \/ EsConnect
    \/ EsExecute(PipeCells)
    \/ EsCap
    \/ EsRecommend(ChartReplies)
    \/ EsChart
    \/ EsInsights

SpecResolve == InitResolve /\ [][NextResolve]_vars

\* Chart synthesis: every chart type, two unknown ones among them, against
\* result sets of every mix of column kinds.
ChartKinds == KnownKinds \cup {"area", "sunburst"}
ChartCells == Cells({0, 2}, {1, 2}, {1})

InitChart ==
    InitWith({"execute_sql"}, {RawQuery}, {<<>>}, ChartKinds,
             {Some(DefaultLimit)}, {TRUE})

NextChart ==
    \/ EsGetLlm
    \/ EsResolve(PipeReplies)
    \/ EsConnect
    \/ EsExecute(ChartCells)
    \/ EsCap
    \/ EsRecommend(ChartReplies)
    \/ EsChart
    \/ EsInsights

SpecChart == InitChart /\ [][NextChart]_vars

\* Trends: the predictive handler against number and text columns.
TrendCells == Cells({-1, 0, 2}, {1}, {})

InitTrend ==
    InitWith({"predictive"}, {RawQuery}, {<<>>}, {"auto"},
             {Some(DefaultLimit)}, {TRUE})

NextTrend ==
    \/ PaGetLlm
    \/ PaConnect
    \/ PaExecute(TrendCells)
    \/ PaPredict
    \/ PaTrends

SpecTrend == InitTrend /\ [][NextTrend]_vars

\* Cancellation: the execute-sql handler with every failure of a collaborator
\* and a cancellation requested at any point.
InitCancel ==
    InitWith({"execute_sql"}, {<<>>, RawQuery}, {<<>>, Question},
             {"auto", "none", "bar"}, {Some(1)}, BOOLEAN)

NextCancel ==
    \/ EsGetLlm
    \/ EsResolve(PipeReplies)
    \/ EsConnect
    \/ EsExecute(PipeCells)
    \/ EsCap
    \/ EsRecommend(ChartReplies)
    \/ EsChart
    \/ EsInsights
    \/ Cancel
    \/ EsCancelled

SpecCancel == InitCancel /\ [][NextCancel]_vars

\* ------------------------------------------------------------------ claims

\* Whether the caller received the handler's result, not an error.
Succeeded == response # None /\ response[1].status = 200

\* The row dict of the i-th fetched row: every column of the result set, in
\* column order, with the fetched value.
FetchedRow(i) ==
    [j \in 1..Len(result[1].columns) |->
        <<result[1].columns[j], result[1].rows[i][j]>>]

\* C1: in the execute-sql path, for a fetched result of n rows and a positive
\* row limit L, the returned data has exactly min(n, L) rows, they are the
\* first min(n, L) fetched rows in their order, and each keeps every column.
C1_RowCap ==
    (handler = "execute_sql" /\ Succeeded /\ query_info.limit[1] > 0) =>
        LET rows == response[1].body.data
            n == Len(result[1].rows)
        IN /\ Len(rows) = Min(n, query_info.limit[1])
           /\ \A i \in 1..Len(rows) : rows[i] = FetchedRow(i)
           /\ response[1].body.metadata.row_count = Len(rows)

\* C1's case: a result of at least two columns with more rows than a positive
\* limit is returned.
C1_Witness ==
    /\ handler = "execute_sql" /\ Succeeded
    /\ query_info.limit[1] > 0
    /\ Len(result[1].rows) > query_info.limit[1]
    /\ Len(result[1].columns) >= 2
    /\ result[1].rows[1] # result[1].rows[Len(result[1].rows)]

\* C2: once the query has been executed and its rows converted, a failure of
\* the chart-kind recommendation, of chart synthesis or of the narrative does
\* not abort the execute-sql request: the caller receives a successful
\* response carrying the executed data rows.
C2_SoftFailures ==
    (handler = "execute_sql" /\ pc = "done" /\ data # None) =>
        (Succeeded /\ response[1].body.data = data[1])

\* Whether the error detail names the execution stage.
ReportsExecutionFailure(detail) ==
    \E k \in 1..Len(detail) : detail[k] = "SQL execution failed: "

\* C3: every failure up to and including query execution aborts the request
\* with an error, and every failure of the data source is reported as an
\* execution failure, in both handlers.
C3_FatalFailures ==
    (pc = "done" /\ failure # None
        /\ failure[1] \in {"get_llm", "resolve", "connect", "execute"}) =>
        /\ response[1].status = 400
        /\ failure[1] \in {"connect", "execute"} =>
              ReportsExecutionFailure(response[1].detail)

\* The first and the last value of column j of the fetched result.
FirstOf(j) == result[1].rows[1][j][2]
LastOf(j) == result[1].rows[Len(result[1].rows)][j][2]

\* The columns of the fetched result that hold numbers, when it has rows.
NumberColumns ==
    {j \in 1..Len(result[1].columns) :
        /\ result[1].rows # <<>>
        /\ \A i \in 1..Len(result[1].rows) : result[1].rows[i][j][1] = "int"}

\* The trend entries of column name c.
EntriesOf(c) == {k \in 1..Len(trends[1]) : trends[1][k][1] = c}

\* C4: for every numeric column of a result with at least 2 rows, the trend's
\* change_percentage is (last - first) / first * 100 when first is not 0 and
\* 0 when first is 0, and computing it raises nothing: the request succeeds.
C4_ChangePercentage ==
    (trends # None /\ Len(result[1].rows) >= 2) =>
        /\ Succeeded
        /\ \A j \in NumberColumns :
              /\ EntriesOf(result[1].columns[j]) # {}
              /\ \A k \in EntriesOf(result[1].columns[j]) :
                    LET p == trends[1][k][2].change_percentage
                    IN IF FirstOf(j) # 0
                       THEN /\ p.den > 0
                            /\ p.num * FirstOf(j)
                                 = (LastOf(j) - FirstOf(j)) * 100 * p.den
                       ELSE p.num = 0 /\ p.den = 1

\* C4's case: a trend of a column whose first value is 0 and whose last is
\* not, beside one whose first value is not 0.
C4_Witness ==
    /\ trends # None /\ Len(result[1].rows) >= 2
    /\ \E j \in NumberColumns : FirstOf(j) = 0 /\ LastOf(j) # 0
    /\ \E j \in NumberColumns : FirstOf(j) # 0 /\ LastOf(j) # FirstOf(j)

\* Whether the text generation was asked for a query.
AskedForQuery == \E k \in 1..Len(llm_calls) : llm_calls[k][1] = "sql"

\* C5: in the predictive path, when the raw query is empty and the
\* natural-language text is not, the text is resolved into a query before any
\* query is executed, and the executed query is the resolved one.
C5_PredictResolves ==
    (handler = "predictive" /\ request.query = <<>>
        /\ request.natural_language_query # <<>> /\ executed # <<>>) =>
        /\ AskedForQuery
        /\ executed[1] # <<>>

\* The reply without its fence decoration: the leading fence tagged sql and a
\* trailing fence taken off, the body left as it is.
Unfence(content) ==
    LET t == Strip(content)
    IN IF StartsWith(t, <<FENCE, SQLTAG>>)
       THEN LET body == RStrip(SubSeq(t, 3, Len(t)))
            IN IF body # <<>> /\ body[Len(body)] = FENCE
               THEN Strip(SubSeq(body, 1, Len(body) - 1))
               ELSE Strip(body)
       ELSE t

\* C6: when the raw query is empty and the natural-language text is not, the
\* executed query is the reply of the text generation without its fence
\* decoration (the leading fence tagged sql and any trailing fence), the
\* query body otherwise unchanged.
C6_FenceStripping ==
    (handler = "execute_sql" /\ request.query = <<>> /\ executed # <<>>) =>
        executed[1] = Unfence(llm_calls[1][3])

\* C7: if the raw query is not empty, every executed query is that raw query
\* and the text generation is never asked for a query, whatever the
\* natural-language text is.
C7_RawQueryVerbatim ==
    request.query # <<>> =>
        /\ \A k \in 1..Len(executed) : executed[k] = request.query
        /\ ~AskedForQuery
        /\ query_info.query = request.query

\* C7's case: a request with a raw query and a natural-language text, whose
\* query has been executed by the execute-sql handler.
C7_Witness ==
    /\ handler = "execute_sql"
    /\ request.query # <<>> /\ request.natural_language_query # <<>>
    /\ executed # <<>>

\* Whether a chart dict is the success dict, with a payload.
HasPayload(c) == "plotly_json" \in DOMAIN c

\* What generate_interactive_chart returns for "bar" on the data the handler
\* charted.
BarChart == generate_interactive_chart(data[1], "bar", df[1].columns)

\* C8 as stated: for a chart type that is none of the recognized ones and
\* data of at least one column, chart synthesis yields the very descriptor
\* (kind, x column, y column, payload) that "bar" yields on the same data.
C8_UnknownKindIsBar ==
    (chart_data # None /\ query_info.chart_type \notin KnownKinds
        /\ df[1].columns # <<>>) =>
        chart_data[1] = BarChart

\* C8, amended: for a chart type that is none of the recognized ones, chart
\* synthesis fails only when "bar" fails on the same data, and yields the x
\* column, the y column and the payload that "bar" yields; the descriptor's
\* kind is the requested chart type, not "bar".
C8_UnknownKindBuildsBar ==
    (chart_data # None /\ query_info.chart_type \notin KnownKinds) =>
        LET c == chart_data[1]
        IN /\ HasPayload(c) <=> HasPayload(BarChart)
           /\ HasPayload(c) =>
                 /\ c.plotly_json = BarChart.plotly_json
                 /\ c.plotly_json[2].type = "bar"
                 /\ c.x_column = BarChart.x_column
                 /\ c.y_column = BarChart.y_column
           /\ c.chart_type = query_info.chart_type
           /\ c.chart_type # "bar"

\* C8's case: a chart with a payload was built for an unrecognized type.
C8_Witness ==
    /\ chart_data # None
    /\ query_info.chart_type \notin KnownKinds
    /\ HasPayload(chart_data[1])
    /\ Len(df[1].columns) >= 2

\* The columns of the charted data that hold text (categorical) and numbers.
TextColumns ==
    {j \in 1..Len(df[1].columns) :
        \E i \in 1..Len(df[1].rows) : df[1].rows[i][j][1] = "str"}
NumColumns ==
    {j \in 1..Len(df[1].columns) :
        \A i \in 1..Len(df[1].rows) : df[1].rows[i][j][1] = "int"}
Least(S) == CHOOSE j \in S : \A k \in S : j <= k

\* C9: the x column is the first categorical column in column order, or the
\* first declared column when none is categorical; the y column is the first
\* numeric column in column order, else the second declared column when there
\* is one, else the x column.
C9_AxisSelection ==
    (chart_data # None /\ df[1].columns # <<>>) =>
        LET c == chart_data[1]
            cols == df[1].columns
        IN /\ HasPayload(c)
           /\ c.x_column = IF TextColumns # {} THEN cols[Least(TextColumns)]
                           ELSE cols[1]
           /\ c.y_column = IF NumColumns # {} THEN cols[Least(NumColumns)]
                           ELSE IF Len(cols) >= 2 THEN cols[2]
                           ELSE c.x_column

\* C9's case: a chart of data whose first column holds numbers and whose
\* second holds text, so that x is the second column and y the first.
C9_Witness ==
    /\ chart_data # None
    /\ Len(df[1].columns) >= 2
    /\ 1 \in NumColumns /\ 2 \in TextColumns
    /\ HasPayload(chart_data[1])
    /\ chart_data[1].x_column = df[1].columns[2]

\* The values of column j of the charted data, in row order.
ValuesOf(j) == [i \in 1..Len(df[1].rows) |-> df[1].rows[i][j]]

\* Whether labels and values are the frequency of each distinct value of
\* vals: every value once among the labels, each with its number of
\* occurrences.
IsFrequency(labels, values, vals) ==
    /\ Len(labels) = Len(values)
    /\ \A i \in 1..Len(vals) : \E k \in 1..Len(labels) : labels[k] = vals[i]
    /\ \A k, m \in 1..Len(labels) : labels[k] = labels[m] => k = m
    /\ \A k \in 1..Len(labels) :
          values[k] = <<"int", Cardinality({i \in 1..Len(vals) :
                                              vals[i] = labels[k]})>>

\* C10: for "pie", when the data has a categorical and a numeric column the
\* pie is sliced by the x column and weighted by the y column; otherwise it
\* counts the occurrences of each distinct value of the x column. Data with
\* no numeric column and one categorical column yields a frequency pie with a
\* payload, never an error.
C10_PieFallback ==
    (chart_data # None /\ query_info.chart_type = "pie"
        /\ df[1].columns # <<>>) =>
        LET c == chart_data[1]
            fig == c.plotly_json[2]
            x == ColIndex(df[1], c.x_column)
            y == ColIndex(df[1], c.y_column)
        IN /\ HasPayload(c) /\ "error" \notin DOMAIN c
           /\ fig.type = "pie"
           /\ IF TextColumns # {} /\ NumColumns # {}
              THEN fig.labels = ValuesOf(x) /\ fig.values = ValuesOf(y)
              ELSE IsFrequency(fig.labels, fig.values, ValuesOf(x))

\* C10's case: a pie with a payload of data with one categorical column and no
\* numeric one, in which a value occurs twice.
C10_Witness ==
    /\ chart_data # None /\ query_info.chart_type = "pie"
    /\ Len(df[1].columns) = 1
    /\ TextColumns = {1} /\ NumColumns = {}
    /\ \E i, k \in 1..Len(df[1].rows) : i # k /\ df[1].rows[i] = df[1].rows[k]
    /\ HasPayload(chart_data[1])

\* The place of a call of the text generation in the pipeline.
CallRank(purpose) ==
    CASE purpose = "sql" -> 1
      [] purpose = "chart" -> 2
      [] OTHER -> 3

\* C11: in one execute-sql request the text generation is called at most once
\* for the query, at most once for the chart kind (only when the requested
\* kind is "auto" and the result is not empty) and at most once for the
\* narrative, in that order, each call ended before the next one starts; the
\* query is executed at most once; after a call that failed nothing is
\* called again.
C11_SingleAttempts ==
    handler = "execute_sql" =>
        /\ \A k, m \in 1..Len(llm_calls) :
              k < m => /\ CallRank(llm_calls[k][1]) < CallRank(llm_calls[m][1])
                       /\ llm_calls[k][2] = "ok"
        /\ \A k \in 1..Len(llm_calls) :
              /\ llm_calls[k][1] = "chart" =>
                    /\ request.chart_type = "auto"
                    /\ data # None /\ data[1] # <<>>
              /\ llm_calls[k][2] # "ok" => (pc = "done" /\ ~Succeeded)
        /\ Len(executed) <= 1
        /\ failure # None => pc = "done"

\* C11's case: a request that made the three calls, one after the other, and
\* executed its query.
C11_Witness ==
    /\ handler = "execute_sql" /\ Succeeded
    /\ Len(llm_calls) = 3
    /\ Len(executed) = 1

\* The column names of the trend entries, in the order of the entries.
TrendNames == [k \in 1..Len(trends[1]) |-> trends[1][k][1]]

\* C12: the trends hold exactly one entry for each numeric column when the
\* result has at least 2 rows and no entry when it has fewer; a column that
\* is not numeric gets no entry, and the entries follow the column order of
\* the result.
C12_TrendEntries ==
    trends # None =>
        IF Len(result[1].rows) >= 2
        THEN /\ \A j \in 1..Len(result[1].columns) :
                  Cardinality(EntriesOf(result[1].columns[j]))
                      = IF j \in NumberColumns THEN 1 ELSE 0
             /\ \A k, m \in 1..Len(TrendNames) :
                  k < m => ColIndex(result[1], TrendNames[k])
                             < ColIndex(result[1], TrendNames[m])
             /\ Len(TrendNames) = Cardinality(NumberColumns)
        ELSE trends[1] = <<>>

\* C12's case: the trends of a result of two rows and two numeric columns.
C12_Witness ==
    /\ trends # None
    /\ Len(result[1].rows) = 2
    /\ NumberColumns = {1, 2}
    /\ Len(trends[1]) = 2

\* C13: for every numeric column of a result with at least 2 rows, the
\* direction is "increasing" exactly when the last row's value is greater
\* than the first row's, and "decreasing" otherwise, equal values included.
C13_Direction ==
    (trends # None /\ Len(result[1].rows) >= 2) =>
        \A j \in NumberColumns :
            /\ EntriesOf(result[1].columns[j]) # {}
            /\ \A k \in EntriesOf(result[1].columns[j]) :
                  LET d == trends[1][k][2].direction
                  IN /\ d \in {"increasing", "decreasing"}
                     /\ d = "increasing" <=> LastOf(j) > FirstOf(j)

\* C13's case: a column whose first and last values are equal beside one
\* whose last value is the greater.
C13_Witness ==
    /\ trends # None /\ Len(result[1].rows) >= 2
    /\ \E j \in NumberColumns : FirstOf(j) = LastOf(j)
    /\ \E j \in NumberColumns : FirstOf(j) < LastOf(j)

\* Whether a chart dict is the failure dict, with an error message.
HasError(c) == "error" \in DOMAIN c

\* C14: every chart dict chart synthesis returns is either a success dict
\* (payload, no error message) or a failure dict (error message, no payload,
\* the chart type kept), never both and never neither; when building the
\* chart raises, as it does for rows without columns, the failure dict is
\* returned, and in both dicts the chart type is the one asked for.
C14_DescriptorShape ==
    chart_data # None =>
        LET c == chart_data[1]
        IN /\ HasPayload(c) <=> ~HasError(c)
           /\ HasPayload(c) =>
                 DOMAIN c = {"plotly_json", "chart_type", "x_column", "y_column"}
           /\ HasError(c) =>
                 /\ DOMAIN c = {"error", "chart_type"}
                 /\ c.error[1] = "Chart generation failed: "
           /\ c.chart_type = query_info.chart_type
           /\ df[1].columns = <<>> => HasError(c)

\* C14's case: chart synthesis raised on rows without columns, for a chart
\* type other than the default.
C14_Witness ==
    /\ chart_data # None
    /\ HasError(chart_data[1])
    /\ df[1].columns = <<>> /\ df[1].rows # <<>>
    /\ query_info.chart_type = "pie"

\* The steps of a handler inside its "with engine.connect()" block.
InExecutor == pc \in {"execute", "cap"}

\* C15: in both handlers the connection opened for a request is released on
\* every way out of the executor (the normal one, an exception of the data
\* source, a failure of the row cap or of the conversion), the rows are
\* fetched before it is released, and it is not held after the executor.
C15_ConnectionReleased ==
    /\ connection = "open" => InExecutor
    /\ (failure # None /\ failure[1] \in {"execute", "cap"}) =>
          connection = "released"
    /\ (connection = "released" /\ failure # Some("execute")) =>
          /\ result # None
          /\ Len(executed) = 1
    /\ connection = "none" => result = None /\ executed = <<>>

\* C15's case: the data source raised while the execute-sql handler held the
\* connection.
C15_Witness ==
    /\ handler = "execute_sql"
    /\ failure = Some("execute")
    /\ connection = "released"

\* C16: once the cancellation of an execute-sql request has been requested,
\* no query is handed to the data source and no running query is carried to
\* its end (no rows are fetched), no chart is synthesized, no call of the
\* text generation returns to the handler and no result is assembled and
\* returned.
C16_CancelStops ==
    [][cancelled =>
          /\ executed' = executed
          /\ result' = result
          /\ chart_data' = chart_data
          /\ ~Succeeded'
          /\ \A k \in (DOMAIN llm_calls') \ (DOMAIN llm_calls) :
                llm_calls'[k][2] = "cancelled"]_vars

\* C17: in both handlers, when get_llm_instance() returns no instance the
\* request fails before a connection to the data source is opened and no
\* query is executed, also when the request carries a raw query and needs no
\* resolution; the text generation is not called either.
C17_NoLlmNoQuery ==
    ~llm =>
        /\ connection = "none"
        /\ executed = <<>> /\ result = None
        /\ llm_calls = <<>>
        /\ pc \in {"get_llm", "done"}
        /\ pc = "done" =>
              /\ failure = Some("get_llm")
              /\ response # None /\ ~Succeeded

\* C17's case: a request with a raw query has ended without an instance.
C17_Witness ==
    /\ ~llm /\ pc = "done"
    /\ request.query # <<>>
    /\ handler = "execute_sql"

====
